---------------------------- MODULE Spec2Model ----------------------------
(***************************************************************************)
(* A model of the search-result harvesting engine of url_scrapper:         *)
(*   src/scrapper.py  the Selenium front-end (and normalize_url_for_compare)*)
(*   src/app.py       the Playwright front-end                             *)
(* Strings are sequences of one-character strings, so that prefix tests,   *)
(* splits, lower-casing and substring tests are computed, not assumed.     *)
(***************************************************************************)
EXTENDS Integers, Sequences, FiniteSets, TLC

VARIABLES
    \* ---- normalize_url_for_compare, applied to one input ----
    npc,          \* "off" | "in" | "once" | "twice"
    nin,          \* the input: [url, wf, host]
    nout,         \* normalize_url_for_compare(nin.url)
    nout2,        \* normalize_url_for_compare(nout)
    \* ---- one run of main() ----
    variant,      \* "app" (src/app.py) | "scrapper" (src/scrapper.py)
    pages,        \* the slider's value: pages per keyword
    pc,           \* the position of the run
    kw,           \* index of the keyword being scraped
    page,         \* page / page_num of the for loop
    content,      \* id of the page the browser holds (0: none)
    li,           \* index of the next anchor of search_results
    found,        \* found, the per-page counter
    results,      \* results, local to scrape_google_search
    all_results,  \* all_results of main
    total_found,  \* total_found of main
    unique,       \* the dict unique of main, in insertion order
    di,           \* index of the next item of "for item in all_results"
    log,          \* history: every navigation, [kw, page, out, id]
    returned,     \* history: what scrape_google_search returned, per keyword
    sessions,     \* the keywords whose browser session is open
    \* ---- the old-URL filter of a run that is given an old-URL list ----
    old_urls,     \* the old-URL list of the run: [given, urls]
    output        \* the records the run hands on after the filter

nvars == <<npc, nin, nout, nout2>>
dvars == <<unique, di>>
fvars == <<old_urls, output>>
svars == <<variant, pages, pc, kw, page, content, li, found, results,
           all_results, total_found, unique, di, log, returned, sessions,
           old_urls, output>>
vars == <<npc, nin, nout, nout2, variant, pages, pc, kw, page, content, li,
          found, results, all_results, total_found, unique, di, log, returned,
          sessions, old_urls, output>>

(***************************************************************************)
(* Strings                                                                 *)
(***************************************************************************)
LowerAlpha == <<"a", "b", "c", "d", "e", "f", "g", "h", "i", "j", "k", "l", "m",
                "n", "o", "p", "q", "r", "s", "t", "u", "v", "w", "x", "y", "z">>
UpperAlpha == <<"A", "B", "C", "D", "E", "F", "G", "H", "I", "J", "K", "L", "M",
                "N", "O", "P", "Q", "R", "S", "T", "U", "V", "W", "X", "Y", "Z">>
Digits == {"0", "1", "2", "3", "4", "5", "6", "7", "8", "9"}

\* str.lower(), one character
LowerChar(c) ==
    IF \E i \in 1..26 : UpperAlpha[i] = c
    THEN LowerAlpha[CHOOSE i \in 1..26 : UpperAlpha[i] = c]
    ELSE c

\* str.lower()
Lower(s) == [i \in 1..Len(s) |-> LowerChar(s[i])]

IsLower(s) == \A i \in 1..Len(s) : \A j \in 1..26 : s[i] # UpperAlpha[j]

\* str.startswith(p)
StartsWith(s, p) == Len(s) >= Len(p) /\ SubSeq(s, 1, Len(p)) = p

\* s[n:]
Drop(s, n) == SubSeq(s, n + 1, Len(s))

\* s[:n]
Take(s, n) == IF Len(s) <= n THEN s ELSE SubSeq(s, 1, n)

MinOf(S) == CHOOSE x \in S : \A y \in S : x <= y
MaxOf(S) == CHOOSE x \in S : \A y \in S : x >= y

\* str.find(c) + 1: the first index of character c, 0 when absent
Find(s, c) ==
    LET at == {i \in 1..Len(s) : s[i] = c}
    IN  IF at = {} THEN 0 ELSE MinOf(at)

\* s.split(c)[0]
SplitFirst(s, c) == IF Find(s, c) = 0 THEN s ELSE SubSeq(s, 1, Find(s, c) - 1)

\* str.strip(), for the blank
Strip(s) ==
    LET ink == {i \in 1..Len(s) : s[i] # " "}
    IN  IF ink = {} THEN <<>> ELSE SubSeq(s, MinOf(ink), MaxOf(ink))

\* sub in s
Contains(s, sub) ==
    \E i \in 0..(Len(s) - Len(sub)) : SubSeq(s, i + 1, i + Len(sub)) = sub

HTTP == <<"h", "t", "t", "p">>
HTTP_SCHEME == <<"h", "t", "t", "p", ":", "/", "/">>
HTTPS_SCHEME == <<"h", "t", "t", "p", "s", ":", "/", "/">>
WWW == <<"w", "w", "w", ".">>

(***************************************************************************)
(* normalize_url_for_compare (src/scrapper.py)                             *)
(***************************************************************************)
\* remove protocol: one leading http:// or https://
RemoveProtocol(url) ==
    IF StartsWith(url, HTTP_SCHEME) THEN Drop(url, 7)
    ELSE IF StartsWith(url, HTTPS_SCHEME) THEN Drop(url, 8)
    ELSE url

\* remove path/query/hash: url.split('/')[0].split('?')[0].split('#')[0]
RemovePath(url) == SplitFirst(SplitFirst(SplitFirst(url, "/"), "?"), "#")

\* a variant of RemoveWww that leaves a leading www. in place
RemoveWww_Keep(url) == url

\* remove leading www.
RemoveWww(url) == IF StartsWith(url, WWW) THEN Drop(url, 4) ELSE url

\* remove port if exists
RemovePort(url) == IF Find(url, ":") # 0 THEN SplitFirst(url, ":") ELSE url

normalize_url_for_compare(url) ==
    Strip(RemovePort(RemoveWww(RemovePath(RemoveProtocol(Lower(Strip(url)))))))

(***************************************************************************)
(* The inputs of the normalizer: every concatenation of at most MaxTokens  *)
(* tokens, and every well-formed URL put together from the parts below.    *)
(***************************************************************************)
MaxTokens == 3

Tokens ==
    { HTTP_SCHEME, HTTPS_SCHEME, WWW, <<"W", "w", "w", ".">>,
      <<"a">>, <<"A">>, <<".">>, <<"c">>, <<":">>, <<"8">>,
      <<"/">>, <<"?">>, <<"#">>, <<" ">>, <<"@">> }

RECURSIVE TokenStrings(_)
TokenStrings(n) ==
    IF n = 0 THEN {<<>>}
    ELSE LET shorter == TokenStrings(n - 1)
         IN  shorter \cup {s \o t : s \in shorter, t \in Tokens}

WfSchemes == {<<>>, HTTP_SCHEME, HTTPS_SCHEME}
WfUserinfos == {<<>>, <<"u", "@">>, <<"u", ":", "p", "@">>}
WfHosts ==
    { <<"a", ".", "c", "o", "m">>,
      <<"w", "w", "w", ".", "a", ".", "c", "o", "m">>,
      <<"W", "W", "W", ".", "E", "x", "a", "m", "p", "l", "e", ".", "c", "o", "m">> }
WfPorts == {<<>>, <<":", "8", "0", "8", "0">>}
WfPaths == {<<>>, <<"/">>, <<"/", "a">>}
WfQueries == {<<>>, <<"?", "b", "=", "1">>}
WfFragments == {<<>>, <<"#", "c">>}

\* the inputs: the URL, whether it was put together from well-formed parts,
\* and then its host and whether it carries userinfo
NormInputs ==
    { [url |-> s, wf |-> FALSE, host |-> <<>>, userinfo |-> FALSE] :
        s \in TokenStrings(MaxTokens) }
    \cup
    { [url |-> sc \o ui \o h \o po \o pa \o q \o f, wf |-> TRUE, host |-> h,
       userinfo |-> (ui # <<>>)] :
        sc \in WfSchemes, ui \in WfUserinfos, h \in WfHosts, po \in WfPorts,
        pa \in WfPaths, q \in WfQueries, f \in WfFragments }


(***************************************************************************)
(* urllib.parse.urlparse, as far as the two front-ends read its result:    *)
(* scheme and netloc, and the ValueError of an unbalanced bracket.         *)
(***************************************************************************)
SchemeChars ==
    {LowerAlpha[i] : i \in 1..26} \cup {UpperAlpha[i] : i \in 1..26}
        \cup Digits \cup {"+", "-", "."}

Letters == {LowerAlpha[i] : i \in 1..26} \cup {UpperAlpha[i] : i \in 1..26}

\* whether url starts with "<scheme>:"
HasScheme(url) ==
    /\ Find(url, ":") > 1
    /\ url[1] \in Letters
    /\ \A j \in 1..(Find(url, ":") - 1) : url[j] \in SchemeChars

\* urlparse(url).scheme
UrlScheme(url) ==
    IF HasScheme(url) THEN Lower(SubSeq(url, 1, Find(url, ":") - 1)) ELSE <<>>

\* what follows the scheme
AfterScheme(url) == IF HasScheme(url) THEN Drop(url, Find(url, ":")) ELSE url

\* _splitnetloc(url, 2)[0]: up to the first of / ? #
SplitNetloc(rest) ==
    LET body == Drop(rest, 2)
        ends == {i \in 1..Len(body) : body[i] \in {"/", "?", "#"}}
    IN  IF ends = {} THEN body ELSE SubSeq(body, 1, MinOf(ends) - 1)

\* urlparse(url).netloc
UrlNetloc(url) ==
    IF StartsWith(AfterScheme(url), <<"/", "/">>)
    THEN SplitNetloc(AfterScheme(url))
    ELSE <<>>

\* urlparse(url) raises ValueError("Invalid IPv6 URL")
UrlparseRaises(url) ==
    LET n == UrlNetloc(url)
    IN  \/ (Find(n, "[") # 0 /\ Find(n, "]") = 0)
        \/ (Find(n, "]") # 0 /\ Find(n, "[") = 0)

(***************************************************************************)
(* Constants of the two front-ends                                         *)
(***************************************************************************)
EXCLUDE_DOMAINS ==
    { <<"y", "o", "u", "t", "u", "b", "e", ".", "c", "o", "m">>,
      <<"t", "w", "i", "t", "t", "e", "r", ".", "c", "o", "m">>,
      <<"x", ".", "c", "o", "m">>,
      <<"i", "n", "s", "t", "a", "g", "r", "a", "m", ".", "c", "o", "m">>,
      <<"l", "i", "n", "k", "e", "d", "i", "n", ".", "c", "o", "m">>,
      <<"j", "u", "s", "t", "d", "i", "a", "l", ".", "c", "o", "m">>,
      <<"q", "u", "o", "r", "a", ".", "c", "o", "m">>,
      <<"r", "e", "d", "d", "i", "t", ".", "c", "o", "m">>,
      <<"t", "e", "l", "e", "g", "r", "a", "m", ".", "o", "r", "g">> }

GOOGLE == <<"g", "o", "o", "g", "l", "e", ".">>
WEBCACHE == <<"w", "e", "b", "c", "a", "c", "h", "e", ".", "g", "o", "o", "g", "l", "e", "u", "s", "e", "r", "c", "o", "n", "t", "e", "n", "t", ".", "c", "o", "m">>

\* the phrases of the block check of app.py, tested on the lower-cased page
BlockPhrasesApp ==
    { <<"u", "n", "u", "s", "u", "a", "l", " ", "t", "r", "a", "f", "f", "i", "c">>,
      <<"c", "a", "p", "t", "c", "h", "a">>,
      <<"d", "e", "t", "e", "c", "t", "e", "d", " ", "u", "n", "u", "s", "u", "a", "l", " ", "t", "r", "a", "f", "f", "i", "c">> }

\* the phrases of the block check of scrapper.py, tested on the page as it is
BlockPhrasesScrapper ==
    { <<"u", "n", "u", "s", "u", "a", "l", " ", "t", "r", "a", "f", "f", "i", "c">>,
      <<"d", "e", "t", "e", "c", "t", "e", "d", " ", "u", "n", "u", "s", "u", "a", "l", " ", "t", "r", "a", "f", "f", "i", "c">>,
      <<"c", "a", "p", "t", "c", "h", "a">>,
      <<"T", "o", " ", "c", "o", "n", "t", "i", "n", "u", "e", ",", " ", "p", "l", "e", "a", "s", "e", " ", "t", "y", "p", "e", " ", "t", "h", "e", " ", "c", "h", "a", "r", "a", "c", "t", "e", "r", "s", " ", "b", "e", "l", "o", "w">> }

\* the length a title is cut to (app.py)
TitleMax == 80

(***************************************************************************)
(* The web: what a navigation can bring back.  An anchor is what           *)
(* get_attribute('href') does ("ok", "none": no href, "raise"), the href,  *)
(* the text, and whether text_content() succeeds.                          *)
(***************************************************************************)
Anchor(g, h, t, tok) == [get |-> g, href |-> h, text |-> t, textok |-> tok]

A_ax == Anchor("ok", <<"h", "t", "t", "p", "s", ":", "/", "/", "a", ".", "c", "o", "m", "/", "x">>, <<"A">>, TRUE)
A_ay == Anchor("ok", <<"h", "t", "t", "p", "s", ":", "/", "/", "a", ".", "c", "o", "m", "/", "y">>, <<>>, TRUE)
A_hax == Anchor("ok", <<"h", "t", "t", "p", ":", "/", "/", "a", ".", "c", "o", "m", "/", "x">>, <<" ", "a", " ">>, TRUE)
A_Az == Anchor("ok", <<"h", "t", "t", "p", "s", ":", "/", "/", "A", ".", "c", "o", "m", "/", "z">>, <<"Z">>, TRUE)
A_b == Anchor("ok", <<"h", "t", "t", "p", "s", ":", "/", "/", "b", ".", "c", "o", "m">>, <<"B">>, TRUE)
A_bText == Anchor("ok", <<"h", "t", "t", "p", "s", ":", "/", "/", "b", ".", "c", "o", "m", "/", "?", "q">>, <<>>, FALSE)
A_nohost == Anchor("ok", <<"h", "t", "t", "p", ":", "/", "n">>, <<"n">>, TRUE)
A_badv6 == Anchor("ok", <<"h", "t", "t", "p", ":", "/", "/", "[", "v">>, <<"v">>, TRUE)
A_google == Anchor("ok", <<"h", "t", "t", "p", "s", ":", "/", "/", "g", "o", "o", "g", "l", "e", ".", "c", "o", "m", "/", "s">>, <<"g">>, TRUE)
A_youtube == Anchor("ok", <<"h", "t", "t", "p", "s", ":", "/", "/", "m", ".", "y", "o", "u", "t", "u", "b", "e", ".", "c", "o", "m", "/", "w">>, <<"y">>, TRUE)
A_rel == Anchor("ok", <<"/", "r", "e", "l">>, <<"r">>, TRUE)
A_none == Anchor("none", <<>>, <<"x">>, TRUE)
A_stale == Anchor("raise", <<>>, <<>>, TRUE)

T_results == <<"r", "e", "s", "u", "l", "t", "s">>
T_traffic == <<"d", "e", "t", "e", "c", "t", "e", "d", " ", "u", "n", "u", "s", "u", "a", "l", " ", "t", "r", "a", "f", "f", "i", "c">>
T_recaptcha == <<"r", "e", "C", "A", "P", "T", "C", "H", "A">>

\* page id -> page source and anchors
PageTable ==
    << [text |-> T_results, links |-> <<A_ax, A_ay>>],
       [text |-> T_results, links |-> <<A_hax, A_google, A_b>>],
       [text |-> T_results,
        links |-> <<A_nohost, A_Az, A_bText, A_stale, A_badv6, A_ay>>],
       [text |-> T_results, links |-> <<A_youtube, A_none, A_rel, A_google>>],
       [text |-> T_traffic, links |-> <<A_b>>],
       [text |-> T_recaptcha, links |-> <<A_b, A_ax>>] >>

PageIds == DOMAIN PageTable

\* how many keywords the run is given
NumKeywords == 2

\* the values of the pages slider the model tries
PageChoices == {1, 2}

Variants == {"app", "scrapper"}

(***************************************************************************)
(* scrape_google_search: the block check and the handling of one anchor    *)
(***************************************************************************)
\* app.py: any(x in page.content().lower() for x in [...])
IsBlockedApp(text) == \E x \in BlockPhrasesApp : Contains(Lower(text), x)

\* scrapper.py: "unusual traffic" in page_source or ... (the page as it is)
IsBlockedScrapper(text) == \E x \in BlockPhrasesScrapper : Contains(text, x)

IsBlocked(v, text) ==
    IF v = "app" THEN IsBlockedApp(text) ELSE IsBlockedScrapper(text)

\* href and href.startswith("http") and no search-engine name in it
HrefPasses(a) ==
    /\ a.get = "ok"
    /\ a.href # <<>>
    /\ StartsWith(a.href, HTTP)
    /\ ~Contains(a.href, GOOGLE)
    /\ ~Contains(a.href, WEBCACHE)

\* domain = urllib.parse.urlparse(href).netloc.lower()
DomainOf(href) == Lower(UrlNetloc(href))

\* any(excluded in domain for excluded in EXCLUDE_DOMAINS)
IsExcluded(domain) == \E excluded \in EXCLUDE_DOMAINS : Contains(domain, excluded)

\* title = result.text_content().strip()[:80]; title if title else domain
TitleOf(a) ==
    LET title == Take(Strip(a.text), TitleMax)
    IN  IF title # <<>> THEN title ELSE DomainOf(a.href)

\* what the body of the anchor loop does with anchor a, in app.py
LinkOutcomeApp(a) ==
    IF a.get = "raise" THEN "raise"
    ELSE IF ~HrefPasses(a) THEN "skip"
    ELSE IF UrlparseRaises(a.href) THEN "raise"
    ELSE IF IsExcluded(DomainOf(a.href)) THEN "skip"
    ELSE IF ~a.textok THEN "raise"
    ELSE "append"

\* the same in scrapper.py, which never reads the anchor's text
LinkOutcomeScrapper(a) ==
    IF a.get = "raise" THEN "raise"
    ELSE IF ~HrefPasses(a) THEN "skip"
    ELSE IF UrlparseRaises(a.href) THEN "raise"
    ELSE IF IsExcluded(DomainOf(a.href)) THEN "skip"
    ELSE "append"

LinkOutcome(v, a) ==
    IF v = "app" THEN LinkOutcomeApp(a) ELSE LinkOutcomeScrapper(a)

\* the record results.append(...) adds
LinkRecord(v, a) ==
    IF v = "app"
    THEN [Domain |-> DomainOf(a.href), URL |-> a.href, Title |-> TitleOf(a)]
    ELSE [Domain |-> DomainOf(a.href), URL |-> a.href]

(***************************************************************************)
(* main: the removal of duplicates.  The dict unique is a sequence of      *)
(* [key, val] in insertion order, which is the order of unique.values().   *)
(***************************************************************************)
HasKey(d, key) == \E i \in 1..Len(d) : d[i].key = key

\* unique[key] = val
DictPut(d, key, val) ==
    IF HasKey(d, key)
    THEN [i \in 1..Len(d) |-> IF d[i].key = key THEN [key |-> key, val |-> val]
                                                 ELSE d[i]]
    ELSE Append(d, [key |-> key, val |-> val])

\* if key not in unique: unique[key] = val
DictPutIfAbsent(d, key, val) ==
    IF HasKey(d, key) THEN d ELSE Append(d, [key |-> key, val |-> val])

\* list(unique.values())
DictValues(d) == [i \in 1..Len(d) |-> d[i].val]

\* base_url = f"{parsed.scheme}://{parsed.netloc}"
BaseUrl(url) == UrlScheme(url) \o <<":", "/", "/">> \o UrlNetloc(url)

\* a variant of ScrapperEntry that keeps the link as it was found
ScrapperEntry_FullUrl(item) == [Domain |-> item.Domain, URL |-> item.URL]

\* scrapper.py: the value stored under base_url
ScrapperEntry(item) == [Domain |-> item.Domain, URL |-> BaseUrl(item.URL)]

\* scrapper.py: unique[base_url] = {...}
ScrapperStore(d, item) == DictPut(d, BaseUrl(item.URL), ScrapperEntry(item))

\* app.py: domain = urlparse(url).netloc if url else ""
AppKey(item) == IF item.URL # <<>> THEN UrlNetloc(item.URL) ELSE <<>>

\* a variant of AppStore in which the last result of a domain wins
AppStore_LastWins(d, item) == DictPut(d, AppKey(item), item)

\* app.py: if domain not in unique: unique[domain] = item
AppStore(d, item) == DictPutIfAbsent(d, AppKey(item), item)

(***************************************************************************)
(* One run of main()                                                       *)
(***************************************************************************)
\* no old-URL list is given
NoOld == [given |-> FALSE, urls |-> {}]

NoInput == [url |-> <<>>, wf |-> FALSE, host |-> <<>>, userinfo |-> FALSE]

Init ==
    /\ npc = "off" /\ nin = NoInput /\ nout = <<>> /\ nout2 = <<>>
    /\ variant \in Variants
    /\ pages \in PageChoices
    /\ pc = "idle"
    /\ kw = 0 /\ page = 0 /\ content = 0 /\ li = 0 /\ found = 0
    /\ results = <<>> /\ all_results = <<>> /\ total_found = 0
    /\ unique = <<>> /\ di = 0
    /\ log = <<>> /\ returned = <<>>
    /\ sessions = {} /\ old_urls = NoOld /\ output = <<>>

\* the "Start Scraping" button, with a non-empty keyword list
StartScraping ==
    /\ pc = "idle"
    /\ pc' = "main" /\ kw' = 1
    /\ all_results' = <<>> /\ total_found' = 0
    /\ UNCHANGED <<nvars, fvars, sessions, dvars, variant, pages, page, content, li, found, results,
                   log, returned>>

\* scrape_google_search(kw, pages, ...) is entered and the browser is there
OpenSession ==
    /\ pc = "main" /\ kw <= NumKeywords
    /\ pc' = "page" /\ page' = 0 /\ results' = <<>> /\ content' = 0
    /\ sessions' = sessions \cup {kw}
    /\ UNCHANGED <<nvars, fvars, dvars, variant, pages, kw, li, found, all_results,
                   total_found, log, returned>>

\* the browser cannot be had (webdriver.Chrome raises; the cached browser is
\* None; new_context raises): the function returns []
OpenFails ==
    /\ pc = "main" /\ kw <= NumKeywords
    /\ pc' = "ret" /\ results' = <<>>
    /\ UNCHANGED <<nvars, fvars, sessions, dvars, variant, pages, kw, page, content, li, found,
                   all_results, total_found, log, returned>>

LogEntry(out, id) == [kw |-> kw, page |-> page, out |-> out, id |-> id]

\* driver.get / page.goto brings a page
GotoOk ==
    /\ pc = "page" /\ page < pages
    /\ \E id \in PageIds :
         /\ content' = id
         /\ log' = Append(log, LogEntry("ok", id))
    /\ pc' = "block"
    /\ UNCHANGED <<nvars, fvars, sessions, dvars, variant, pages, kw, page, li, found, results,
                   all_results, total_found, returned>>

\* a variant of GotoFails that gives up the page only, not the keyword
GotoFails_NextPage ==
    /\ pc = "page" /\ page < pages
    /\ \E out \in {"timeout", "error"} : log' = Append(log, LogEntry(out, 0))
    /\ pc' = "page" /\ page' = page + 1
    /\ UNCHANGED <<nvars, fvars, sessions, dvars, variant, pages, kw, content, li, found,
                   results, all_results, total_found, returned>>

\* driver.get / page.goto raises: a timeout, or another error; both break
GotoFails ==
    /\ pc = "page" /\ page < pages
    /\ \E out \in {"timeout", "error"} : log' = Append(log, LogEntry(out, 0))
    /\ pc' = "close"
    /\ UNCHANGED <<nvars, fvars, sessions, dvars, variant, pages, kw, page, content, li, found,
                   results, all_results, total_found, returned>>

\* range(pages) is exhausted
PagesDone ==
    /\ pc = "page" /\ page >= pages
    /\ pc' = "close"
    /\ UNCHANGED <<nvars, fvars, sessions, dvars, variant, pages, kw, page, content, li, found,
                   results, all_results, total_found, log, returned>>

\* the block check; a page that passes has its anchors listed
CheckBlock ==
    /\ pc = "block"
    /\ IF IsBlocked(variant, PageTable[content].text)
       THEN pc' = "close" /\ UNCHANGED <<li, found>>
       ELSE pc' = "links" /\ li' = 1 /\ found' = 0
    /\ UNCHANGED <<nvars, fvars, sessions, dvars, variant, pages, kw, page, content, results,
                   all_results, total_found, log, returned>>

Links == PageTable[content].links

\* one turn of "for result in search_results"
HandleLink ==
    /\ pc = "links" /\ li <= Len(Links)
    /\ LET a == Links[li]
           what == LinkOutcome(variant, a)
       IN  /\ results' = IF what = "append"
                         THEN Append(results, LinkRecord(variant, a))
                         ELSE results
           /\ found' = IF what = "append" THEN found + 1 ELSE found
           \* app.py catches per link and goes on; scrapper.py has no handler
           \* between the anchor loop and Streamlit: the run ends there
           /\ IF what = "raise" /\ variant = "scrapper"
              THEN pc' = "crashed" /\ li' = li
              ELSE pc' = "links" /\ li' = li + 1
    /\ UNCHANGED <<nvars, fvars, sessions, dvars, variant, pages, kw, page, content, all_results,
                   total_found, log, returned>>

\* a variant of PageEnd that goes to the next page whatever was found
PageEnd_NoBreak ==
    /\ pc = "links" /\ li > Len(Links)
    /\ pc' = "page" /\ page' = page + 1
    /\ UNCHANGED <<nvars, fvars, sessions, dvars, variant, pages, kw, content, li, found,
                   results, all_results, total_found, log, returned>>

\* after the anchors: if found == 0: break, else the next page
PageEnd ==
    /\ pc = "links" /\ li > Len(Links)
    /\ IF found = 0
       THEN pc' = "close" /\ page' = page
       ELSE pc' = "page" /\ page' = page + 1
    /\ UNCHANGED <<nvars, fvars, sessions, dvars, variant, pages, kw, content, li, found, results,
                   all_results, total_found, log, returned>>

\* context.close() / driver.quit(), and return results
CloseSession ==
    /\ pc = "close"
    /\ pc' = "ret"
    /\ sessions' = sessions \ {kw}
    /\ UNCHANGED <<nvars, fvars, dvars, variant, pages, kw, page, content, li, found,
                   results, all_results, total_found, log, returned>>

\* main: total_found += len(result); all_results.extend(result)
Collect ==
    /\ pc = "ret"
    /\ total_found' = total_found + Len(results)
    /\ all_results' = all_results \o results
    /\ returned' = Append(returned, results)
    /\ kw' = kw + 1
    /\ pc' = "main"
    /\ UNCHANGED <<nvars, fvars, sessions, dvars, variant, pages, page, content, li, found, results,
                   log>>

\* main: after the last keyword, unique = {} and the loop over all_results
BeginDedup ==
    /\ pc = "main" /\ kw > NumKeywords
    /\ unique' = <<>> /\ di' = 1
    /\ pc' = "dedup"
    /\ UNCHANGED <<nvars, fvars, sessions, variant, pages, kw, page, content, li, found,
                   results, all_results, total_found, log, returned>>

\* one turn of "for item in all_results"
DedupItem ==
    /\ pc = "dedup" /\ di <= Len(all_results)
    /\ unique' = IF variant = "app" THEN AppStore(unique, all_results[di])
                                    ELSE ScrapperStore(unique, all_results[di])
    /\ di' = di + 1
    /\ UNCHANGED <<nvars, fvars, sessions, variant, pages, pc, kw, page, content, li, found,
                   results, all_results, total_found, log, returned>>

\* all_results = list(unique.values())
EndDedup ==
    /\ pc = "dedup" /\ di > Len(all_results)
    /\ all_results' = DictValues(unique)
    /\ pc' = "done"
    /\ UNCHANGED <<nvars, fvars, sessions, dvars, variant, pages, kw, page, content, li, found,
                   results, total_found, log, returned>>

Next ==
    \/ StartScraping
    \/ OpenSession
    \/ OpenFails
    \/ GotoOk
    \/ GotoFails
    \/ PagesDone
    \/ CheckBlock
    \/ HandleLink
    \/ PageEnd
    \/ CloseSession
    \/ Collect
    \/ BeginDedup
    \/ DedupItem
    \/ EndDedup

Spec == Init /\ [][Next]_vars

(***************************************************************************)
(* A run that is given an old-URL list: the dynamic exclusion filter comes *)
(* after the de-duplication, before the records are handed on              *)
(***************************************************************************)
\* an old-URL list as it is supplied: raw strings, each with the host it names
OldUrl(u, h) == [url |-> u, host |-> h]
Old_a == OldUrl(<<"h", "t", "t", "p", "s", ":", "/", "/", "W", "W", "W", ".", "a", ".", "c", "o", "m", ":", "8", "0", "/", "o">>,
                <<"a", ".", "c", "o", "m">>)
Old_b == OldUrl(<<"b", ".", "c", "o", "m">>, <<"b", ".", "c", "o", "m">>)
OldChoices ==
    { NoOld,
      [given |-> TRUE, urls |-> {Old_a}],
      [given |-> TRUE, urls |-> {Old_b}] }

\* the old-URL set: the normalized forms of the supplied strings
OldURLSet(urls) == {normalize_url_for_compare(o.url) : o \in urls}

\* a record is old when the normalized form of its URL is in the set
IsOld(r, S) == normalize_url_for_compare(r.URL) \in S

\* the records that are not old, in their order
FilterOld(rs, S) == SelectSeq(rs, LAMBDA r : ~IsOld(r, S))

\* the filter step of the run, after remove-duplicates
ApplyOldFilter ==
    /\ pc = "done"
    /\ \E o \in OldChoices :
          /\ old_urls' = o
          /\ output' = IF o.given THEN FilterOld(all_results, OldURLSet(o.urls))
                                  ELSE all_results
    /\ pc' = "saved"
    /\ UNCHANGED <<nvars, sessions, dvars, variant, pages, kw, page, content, li,
                   found, results, all_results, total_found, log, returned>>

NextOld == Next \/ ApplyOldFilter

\* the runs with the slider at one page per keyword
InitOld == Init /\ pages = 1

SpecOld == InitOld /\ [][NextOld]_vars

(***************************************************************************)
(* The normalizer applied to one input, and to its own result              *)
(***************************************************************************)
NormInit ==
    /\ npc = "in" /\ nin \in NormInputs /\ nout = <<>> /\ nout2 = <<>>
    /\ variant = "scrapper" /\ pages = 1 /\ pc = "idle"
    /\ kw = 0 /\ page = 0 /\ content = 0 /\ li = 0 /\ found = 0
    /\ results = <<>> /\ all_results = <<>> /\ total_found = 0
    /\ unique = <<>> /\ di = 0
    /\ log = <<>> /\ returned = <<>>
    /\ sessions = {} /\ old_urls = NoOld /\ output = <<>>

NormOnce ==
    /\ npc = "in"
    /\ nout' = normalize_url_for_compare(nin.url)
    /\ npc' = "once"
    /\ UNCHANGED <<nin, nout2, svars>>

NormTwice ==
    /\ npc = "once"
    /\ nout2' = normalize_url_for_compare(nout)
    /\ npc' = "twice"
    /\ UNCHANGED <<nin, nout, svars>>

NormNext == NormOnce \/ NormTwice

SpecNorm == NormInit /\ [][NormNext]_vars

(***************************************************************************)
(* Properties                                                              *)
(***************************************************************************)
RECURSIVE Flatten(_)
Flatten(ss) == IF ss = <<>> THEN <<>> ELSE Head(ss) \o Flatten(Tail(ss))

\* every result the keywords returned, in the order main accumulated them
Accumulated == Flatten(returned)

\* the lower-cased host without a leading www.
CanonicalHost(h) ==
    LET l == Lower(h)
    IN  IF Len(l) >= 4 /\ SubSeq(l, 1, 4) = WWW THEN SubSeq(l, 5, Len(l)) ELSE l

\* u is scheme://netloc and nothing more
IsBaseForm(u) ==
    \E i \in 1..(Len(u) - 2) :
        /\ SubSeq(u, i, i + 2) = <<":", "/", "/">>
        /\ \A j \in 1..Len(u) : (j < i \/ j > i + 2) => u[j] \notin {"/", "?", "#"}

\* the records the anchors of page id yield in front-end v, in the order of
\* the anchors
AcceptedOn(v, id) ==
    LET ls == PageTable[id].links
        RECURSIVE From(_)
        From(i) ==
            IF i > Len(ls) THEN <<>>
            ELSE (IF LinkOutcome(v, ls[i]) = "append"
                  THEN <<LinkRecord(v, ls[i])>> ELSE <<>>) \o From(i + 1)
    IN  From(1)

\* per front-end and page: the records it yields, whether it is read for
\* links, and whether it is read and yields none (and no anchor raises)
AcceptedTable == [v \in Variants |-> [id \in PageIds |-> AcceptedOn(v, id)]]
ReadTable ==
    [v \in Variants |-> [id \in PageIds |-> ~IsBlocked(v, PageTable[id].text)]]
ZeroTable ==
    [v \in Variants |-> [id \in PageIds |->
        /\ ~IsBlocked(v, PageTable[id].text)
        /\ \A i \in 1..Len(PageTable[id].links) :
             LinkOutcome(v, PageTable[id].links[i]) \notin {"append", "raise"}]]
PhraseTable ==
    [id \in PageIds |->
        \E x \in BlockPhrasesApp : Contains(Lower(PageTable[id].text), x)]

\* the page of log entry e was read for links
Extracted(e) == e.out = "ok" /\ ReadTable[variant][e.id]

\* what keyword k has to return, given the pages log[1..n] brought it
RECURSIVE ExpectedUpTo(_, _)
ExpectedUpTo(n, k) ==
    IF n = 0 THEN <<>>
    ELSE ExpectedUpTo(n - 1, k) \o
         (IF log[n].kw = k /\ Extracted(log[n])
          THEN AcceptedTable[variant][log[n].id] ELSE <<>>)

Expected(k) == ExpectedUpTo(Len(log), k)

\* the page of log entry e was read for links and none was accepted
ZeroFound(e) == e.out = "ok" /\ ZeroTable[variant][e.id]

\* the page of the last log entry is still being handled
InPage == pc \in {"block", "links"}

\* the source of page id holds a block phrase, whatever its letter case
HasBlockPhrase(id) == PhraseTable[id]

\* C1: normalize_url_for_compare is idempotent
C1_NormalizeIdempotent == npc = "twice" => nout2 = nout

\* C2: on a well-formed URL normalize_url_for_compare returns the lower-cased
\* host without a leading www. and nothing else; on empty input it returns ""
C2_NormalizeWellFormed ==
    npc # "in" =>
        /\ nin.wf => nout = CanonicalHost(nin.host)
        /\ nin.url = <<>> => nout = <<>>

\* C3: after the dedup step no two records of the final list have the same
\* Domain
C3_OneRecordPerDomain ==
    pc = "done" =>
        \A i, j \in 1..Len(all_results) :
            all_results[i].Domain = all_results[j].Domain => i = j

\* the accumulated result di is the first one with its Domain
FirstOfDomain ==
    \A j \in 1..(di - 1) : all_results[j].Domain # all_results[di].Domain

\* C4: first-seen-wins: the first accumulated result of a domain puts the
\* record built from it (app.py: the result itself; scrapper.py: its Domain
\* and base URL) at the end of the kept ones; no later result changes a kept
\* record or its position; the final list is the kept records in that order
C4_FirstSeenWins ==
    [][ /\ (pc = "dedup" /\ pc' = "dedup") =>
            /\ Len(unique') >= Len(unique)
            /\ \A p \in 1..Len(unique) : unique'[p].val = unique[p].val
            /\ FirstOfDomain =>
                 /\ Len(unique') = Len(unique) + 1
                 /\ unique'[Len(unique')].val.Domain = all_results[di].Domain
                 /\ variant = "app" =>
                      unique'[Len(unique')].val = all_results[di]
                 /\ variant = "scrapper" =>
                      unique'[Len(unique')].val.URL = BaseUrl(all_results[di].URL)
        /\ (pc = "dedup" /\ pc' = "done") =>
            /\ Len(all_results') = Len(unique)
            /\ \A p \in 1..Len(unique) : all_results'[p] = unique[p].val
      ]_vars

\* C4 witness: every item is through the loop, and a later result of a
\* domain, with another URL, came after the first one
C4_Witness ==
    /\ pc = "dedup" /\ di > Len(all_results)
    /\ \E i, j \in 1..Len(all_results) :
         /\ i < j
         /\ all_results[i].Domain = all_results[j].Domain
         /\ all_results[i].URL # all_results[j].URL
    /\ Len(unique) >= 2

\* C5 as stated: every record of the final list has the base form of its
\* link as URL, in both front-ends
C5_BaseUrlEverywhere ==
    pc = "done" =>
        \A p \in 1..Len(all_results) :
            /\ IsBaseForm(all_results[p].URL)
            /\ \E i \in 1..Len(Accumulated) :
                 all_results[p].URL = BaseUrl(Accumulated[i].URL)

\* C5 amended: in scrapper.py every record of the final list has the base
\* form scheme://netloc of a link it was built from, and no two records the
\* same URL; in app.py a record of the final list is an accumulated result
\* as it was found, full URL included
C5_BaseUrlScrapperOnly ==
    pc = "done" =>
        /\ variant = "scrapper" =>
             /\ \A p \in 1..Len(all_results) :
                  /\ IsBaseForm(all_results[p].URL)
                  /\ \E i \in 1..Len(Accumulated) :
                       /\ all_results[p].URL = BaseUrl(Accumulated[i].URL)
                       /\ all_results[p].Domain = Accumulated[i].Domain
             /\ \A p, q \in 1..Len(all_results) :
                  all_results[p].URL = all_results[q].URL => p = q
        /\ variant = "app" =>
             \A p \in 1..Len(all_results) :
                 \E i \in 1..Len(Accumulated) : all_results[p] = Accumulated[i]

\* C5 witness: scrapper.py, https://a.com/x then https://a.com/y were found,
\* and the final list is the one record of https://a.com
C5_Witness ==
    /\ pc = "done" /\ variant = "scrapper"
    /\ Len(Accumulated) = 2
    /\ Accumulated[1].URL = A_ax.href /\ Accumulated[2].URL = A_ay.href
    /\ all_results = << [Domain |-> <<"a", ".", "c", "o", "m">>,
                         URL |-> HTTPS_SCHEME \o <<"a", ".", "c", "o", "m">>] >>

\* C6: every record appended to results has a non-empty, lower-case Domain
C6_DomainNonEmptyLower ==
    \A i \in 1..Len(results) :
        results[i].Domain # <<>> /\ IsLower(results[i].Domain)

\* C7: a page with zero accepted links ends the pages of its keyword: no
\* later navigation is for that keyword, the run has not ended in an
\* exception there, and every keyword returns the links accepted on the
\* pages that were read for it, this keyword and the others alike
C7_ZeroFoundEndsKeyword ==
    /\ \A n \in 1..Len(log) :
         (ZeroFound(log[n]) /\ ~(n = Len(log) /\ InPage)) =>
             /\ \A m \in (n + 1)..Len(log) : log[m].kw > log[n].kw
             /\ n = Len(log) => pc \in {"close", "ret", "main", "page", "dedup", "done"}
             /\ (n = Len(log) /\ pc = "page") => kw > log[n].kw
    /\ \A k \in 1..Len(returned) :
         (\E n \in 1..Len(log) : ZeroFound(log[n])) => returned[k] = Expected(k)

\* C7 witness: the second page of the first keyword had no accepted link,
\* the first keyword returned the links of its first page, and the second
\* keyword returned links too
C7_Witness ==
    /\ \E n \in 1..Len(log) :
         ZeroFound(log[n]) /\ log[n].kw = 1 /\ log[n].page = 1
    /\ Len(returned) = NumKeywords
    /\ returned[1] # <<>>
    /\ returned[2] # <<>>

\* C8: a page whose lower-cased source holds a block phrase is treated as
\* blocked: its anchors are never read, and no later navigation is for its
\* keyword
C8_BlockPhraseBlocks ==
    /\ pc = "links" => ~HasBlockPhrase(content)
    /\ \A n \in 1..Len(log) :
         (log[n].out = "ok" /\ HasBlockPhrase(log[n].id)) =>
             \A m \in (n + 1)..Len(log) : log[m].kw > log[n].kw

\* C9: an error raised while one anchor is handled is swallowed: the loop
\* goes on with the next anchor and the accepted links are kept
C9_LinkErrorSwallowed ==
    [][ (pc = "links" /\ li <= Len(Links)
            /\ LinkOutcome(variant, Links[li]) = "raise") =>
        (pc' = "links" /\ li' = li + 1 /\ results' = results) ]_vars

\* C10: a navigation timeout ends the pages of its keyword and nothing else:
\* every later navigation is for a later keyword, the run has not ended in an
\* exception there, the keyword returns the links of its earlier pages, and
\* the keywords are taken one by one in input order, all of them before the
\* duplicates are removed
C10_TimeoutRecoveredLocally ==
    /\ \A n \in 1..Len(log) :
         log[n].out = "timeout" =>
             /\ \A m \in (n + 1)..Len(log) : log[m].kw > log[n].kw
             /\ \A m \in 1..(n - 1) :
                  log[m].kw = log[n].kw => log[m].page < log[n].page
             /\ n = Len(log) => pc \in {"close", "ret", "main", "page", "dedup", "done"}
             /\ (n = Len(log) /\ pc = "page") => kw > log[n].kw
             /\ log[n].kw <= Len(returned) =>
                  returned[log[n].kw] = Expected(log[n].kw)
    /\ (\E n \in 1..Len(log) : log[n].out = "timeout") =>
         /\ pc \in {"main", "page", "block", "links", "close", "ret"} =>
              Len(returned) = kw - 1
         /\ pc \in {"dedup", "done"} => Len(returned) = NumKeywords

\* C10 witness: the second page of the first keyword timed out, the first
\* keyword returned the links of its first page, and the run went through
\* the last keyword, which returned links
C10_Witness ==
    /\ pc = "done"
    /\ \E n \in 1..Len(log) :
         log[n].out = "timeout" /\ log[n].kw = 1 /\ log[n].page = 1
    /\ returned[1] # <<>>
    /\ returned[NumKeywords] # <<>>

\* the normalized forms of the old-URL list the run was given
OldForms == {normalize_url_for_compare(o.url) : o \in old_urls.urls}

\* the places of the de-duplicated records whose normalized URL is not old
Kept == {i \in 1..Len(all_results) :
            normalize_url_for_compare(all_results[i].URL) \notin OldForms}

InFunction == pc \in {"page", "block", "links", "close"}

\* C12: every browser session scrape_google_search opens for a keyword is
\* closed before control leaves the function, on every path: inside the
\* function the one open session is the current keyword's, and outside it
\* (back in main, between keywords, after an exception that left it) no
\* session is open.
C12_SessionClosedOnEveryPath ==
    /\ InFunction => sessions = {kw}
    /\ ~InFunction => sessions = {}

=============================================================================
